---- MODULE Spec2Model ----
(***************************************************************************)
(* Model of the freemocap Blender adapter's skeleton data model            *)
(* (keypoint_rigidbody_linkage_chain_abc.py, full_body_skeleton.py), of    *)
(* its ground-frame estimator (put_skeleton_on_ground.py), of the tracked  *)
(* points (tracked_points_classes.py), the rigid body meshes               *)
(* (put_rigid_body_meshes_on_empties.py) and the model export              *)
(* (export_3d_model.py).                                                   *)
(*                                                                         *)
(* Python values are records with a "cls" field (the value's class), so    *)
(* that isinstance() is a test of cls and the dataclass-generated __eq__   *)
(* (same class, equal fields) is record equality.                          *)
(***************************************************************************)
EXTENDS Integers, Sequences, FiniteSets, TLC

VARIABLES
    call,       \* the constructor call being evaluated: class and arguments
    outcome,    \* "ok", or the name of the exception the call raised
    instance,   \* the object the call returned, NoInstance when it raised
    start,      \* the structural node whose `root` is being evaluated
    node,       \* the receiver of the `root` property call in progress
    pc,         \* "idle", "eval" (a property call is running) or "done"
    result,     \* what `start.root` returned
    keypoint_trajectories,  \* keypoint name -> position at the good frame
    reference,  \* the four reference points handed to estimate_orthonormal_basis
    basis,      \* what estimate_orthonormal_basis returned: x_hat, y_hat, z_hat
    gpc,        \* position inside put_skeleton_on_ground
    transformed_trajectories,   \* what put_skeleton_on_ground returned
    heap,       \* the Python objects of a call: address -> object
    good_frame, \* what get_low_velocity_frame returned
    returned,   \* address of the mapping put_skeleton_on_ground returned
    keypoints,  \* what map_to_keypoints returned: (key, Trajectory) in dict order
    segment_definitions,    \* (name, segment) items of the dict, in dict order
    axial_color,    \* what generate_color returned for the axial segments
    meshes,     \* the rigid body meshes made so far, in the order made
    scene,      \* bpy.data.objects: the objects of the scene, in iteration order
    scene_at_call,  \* bpy.data.objects when export_3d_model was called
    extension,  \* the `extension` argument of export_3d_model
    rig_original_name,  \* the local variable of export_3d_model
    epc         \* position inside export_3d_model

constructVars == <<call, outcome, instance>>

rootVars == <<start, node, pc, result>>

groundVars ==
    <<keypoint_trajectories, reference, basis, gpc, transformed_trajectories>>

frameVars == <<heap, good_frame, returned>>

meshVars == <<segment_definitions, axial_color, meshes>>

exportVars == <<scene, scene_at_call, extension, rig_original_name, epc>>

addonVars == <<frameVars, keypoints, meshVars, exportVars>>

vars == <<constructVars, rootVars, groundVars, addonVars>>

----------------------------------------------------------------------------
(* Bounds *)

\* longest `children` list of a compound rigid body
MaxChildren == 2

\* longest `linked_keypoints` list of a linkage
MaxLinked == 2

\* longest `children` list passed to a linkage
MaxLinkageChildren == 1

\* longest `children` and `shared_bodies` lists of a chain
MaxChainLists == 1

\* most source points of a keypoint mapping
MaxSources == 3

\* largest coordinate of a reference keypoint, in whole length units
MaxCoord == 1

----------------------------------------------------------------------------
(* Python values *)

None == [cls |-> "NoneType"]

Range(xs) == {xs[i] : i \in 1..Len(xs)}

NoInstance == [cls |-> "NoInstance"]

\* Keypoint(name=n): a dataclass with the single field `name`
Keypoint(n) == [cls |-> "Keypoint", name |-> n]

\* a plain string passed where a Keypoint is expected
Str(n) == [cls |-> "str", name |-> n]

\* the first members of AxialBodyKeypoints
KeypointNames == {"NOSE", "HEAD_CENTER", "HEAD_TOP"}

Keypoints == {Keypoint(n) : n \in KeypointNames}

\* what a caller may pass as parent/child of a simple rigid body
KeypointArgs == Keypoints \cup {Str(n) : n \in KeypointNames} \cup {None}

\* a Python list passed where a single object is expected
List(items) == [cls |-> "list", items |-> items]

IsInstance(x, c) == x.cls = c

\* the classes of the module decorated with @dataclass: only these get a
\* generated __init__ that stores keyword arguments and runs __post_init__
DataclassNames ==
    {"Keypoint", "RigidBody", "SimpleRigidBody", "CompoundRigidBody",
     "Linkage", "KeypointMapping"}

IsDataclass(c) == c \in DataclassNames

\* bool(x) of an Optional[Keypoint]: None is falsy, a dataclass instance truthy
Truthy(x) == x.cls # "NoneType"

\* x in xs, for a Python list modelled as a sequence
In(x, xs) == \E i \in 1..Len(xs) : xs[i] = x

SeqsUpTo(S, n) == UNION {[1..m -> S] : m \in 0..n}

----------------------------------------------------------------------------
(* SimpleRigidBodyABC *)

SimpleRigidBody(p, c) == [cls |-> "SimpleRigidBody", parent |-> p, child |-> c]

SimplePostInitNoDistinctCheck(self) ==
    IF ~(IsInstance(self.parent, "Keypoint") /\ IsInstance(self.child, "Keypoint"))
    THEN "ValueError"
    ELSE "ok"

SimplePostInit(self) ==
    IF ~(IsInstance(self.parent, "Keypoint") /\ IsInstance(self.child, "Keypoint"))
    THEN "ValueError"
    ELSE IF self.parent = self.child
    THEN "ValueError"
    ELSE "ok"

----------------------------------------------------------------------------
(* CompoundRigidBodyABC *)

CompoundRigidBody(p, cs, sk, px, py, ny) ==
    [cls |-> "CompoundRigidBody", parent |-> p, children |-> cs,
     shared_keypoint |-> sk, positive_x_direction |-> px,
     approximate_positive_y_direction |-> py,
     approximate_negative_y_direction |-> ny]

CompoundPostInitNoNegativeYCheck(self) ==
    IF ~In(self.shared_keypoint, self.children) THEN "ValueError"
    ELSE IF ~In(self.positive_x_direction, self.children) THEN "ValueError"
    ELSE IF Truthy(self.approximate_positive_y_direction)
            /\ ~In(self.approximate_positive_y_direction, self.children)
    THEN "ValueError"
    ELSE IF ~Truthy(self.approximate_positive_y_direction)
            /\ ~Truthy(self.approximate_negative_y_direction)
    THEN "ValueError"
    ELSE "ok"

CompoundPostInit(self) ==
    IF ~In(self.shared_keypoint, self.children) THEN "ValueError"
    ELSE IF ~In(self.positive_x_direction, self.children) THEN "ValueError"
    ELSE IF Truthy(self.approximate_positive_y_direction)
            /\ ~In(self.approximate_positive_y_direction, self.children)
    THEN "ValueError"
    ELSE IF Truthy(self.approximate_negative_y_direction)
            /\ ~In(self.approximate_negative_y_direction, self.children)
    THEN "ValueError"
    ELSE IF ~Truthy(self.approximate_positive_y_direction)
            /\ ~Truthy(self.approximate_negative_y_direction)
    THEN "ValueError"
    ELSE "ok"

----------------------------------------------------------------------------
(* LinkageABC *)

Linkage(p, ch, lk) ==
    [cls |-> "Linkage", parent |-> p, children |-> ch, linked_keypoints |-> lk]

\* one pass of the inner loop body: TRUE when it does not raise
LinkageBodyAccepts(body, keypoint) ==
    IF IsInstance(body, "SimpleRigidBody")
    THEN In(keypoint, <<body.parent, body.child>>)
    ELSE IF IsInstance(body, "CompoundRigidBody")
    THEN In(keypoint, <<body.parent>> \o body.children)
    ELSE FALSE

\* for body in [self.parent, self.children]: for keypoint in linked_keypoints
LinkagePostInit(self) ==
    LET bodies == <<self.parent, self.children>> IN
    IF \A i \in 1..Len(bodies), j \in 1..Len(self.linked_keypoints) :
           LinkageBodyAccepts(bodies[i], self.linked_keypoints[j])
    THEN "ok"
    ELSE "ValueError"

----------------------------------------------------------------------------
(* ChainABC *)

Chain(p, ch, sb, how) ==
    [cls |-> "Chain", parent |-> p, children |-> ch, shared_bodies |-> sb,
     via |-> how]

ChainPostInit(self) ==
    IF \A i \in 1..Len(self.shared_bodies) :
           \E j \in 1..Len(self.children) :
               self.shared_bodies[i] = self.children[j].parent
    THEN "ok"
    ELSE "ValueError"

----------------------------------------------------------------------------
(* KeypointMapping.  Weights are exact multiples of 1/WeightUnit.           *)

\* common denominator of 1/1, 1/2, 1/3 and 1/4
WeightUnit == 3 * 4

KeypointMapping(m, w) == [cls |-> "KeypointMapping", mapping |-> m, weights |-> w]

RECURSIVE SumSeq(_)
SumSeq(xs) == IF xs = <<>> THEN 0 ELSE Head(xs) + SumSeq(Tail(xs))

\* [1 / n] * n
Uniform(n) == [i \in 1..n |-> WeightUnit \div n]

\* the body of __post_init__ once self.source_keypoints has been read
KeypointMappingChecks(source_keypoints, weights) ==
    IF IsInstance(source_keypoints, "dict")
    THEN "AttributeError"   \* list(...).values() on the rebound list
    ELSE LET n == Len(source_keypoints.items)
             ws == IF weights = None THEN Uniform(n) ELSE weights.items
         IN  IF n # Len(ws) THEN "ValueError"
             ELSE IF SumSeq(ws) # WeightUnit THEN "ValueError"
             ELSE "ok"

\* the first statement reads self.source_keypoints; the dataclass fields are
\* `mapping` and `weights`
KeypointMappingPostInit(self) ==
    IF "source_keypoints" \notin DOMAIN self
    THEN "AttributeError"
    ELSE KeypointMappingChecks(self.source_keypoints, self.weights)

----------------------------------------------------------------------------
(* Constructor calls.  A call is the object whose fields have been stored   *)
(* from the arguments; __post_init__ then runs on it, and an exception      *)
(* leaves the caller without an instance.                                   *)

SimpleCalls == {SimpleRigidBody(p, c) : p \in KeypointArgs, c \in KeypointArgs}

CompoundCallsUpTo(n) ==
    {CompoundRigidBody(p, cs, sk, px, py, ny) :
        p \in Keypoints, cs \in SeqsUpTo(Keypoints, n),
        sk \in Keypoints, px \in Keypoints,
        py \in Keypoints \cup {None}, ny \in Keypoints \cup {None}}

CompoundCalls == CompoundCallsUpTo(MaxChildren)

\* the rigid bodies a caller can hold: those whose construction succeeded
SimpleBodies == {b \in SimpleCalls : SimplePostInit(b) = "ok"}

CompoundBodies == {b \in CompoundCallsUpTo(1) : CompoundPostInit(b) = "ok"}

RigidBodies == SimpleBodies \cup CompoundBodies

LinkageCalls ==
    {Linkage(p, ch, lk) :
        p \in RigidBodies,
        ch \in RigidBodies
               \cup {List(bs) : bs \in SeqsUpTo(RigidBodies, MaxLinkageChildren)
                                       \ {<<>>}},
        lk \in SeqsUpTo(Keypoints, MaxLinked)}

\* the linkages a caller can hold
Linkages ==
    {l \in {Linkage(p, ch, <<k>>) : p \in SimpleBodies, ch \in SimpleBodies,
                                    k \in Keypoints} :
        LinkagePostInit(l) = "ok"}

ChainCalls ==
    {Chain(p, ch, sb, how) :
        p \in Linkages, ch \in SeqsUpTo(Linkages, MaxChainLists),
        sb \in SeqsUpTo(SimpleBodies, MaxChainLists),
        how \in {"keyword_arguments", "class_attributes"}}

TrackerNames == {"nose", "left_eye"}

Weights == {0, WeightUnit \div 4, WeightUnit \div 3, WeightUnit \div 2, WeightUnit}

KeypointMappingCalls ==
    {KeypointMapping(List(m), w) :
        m \in SeqsUpTo(TrackerNames, MaxSources) \ {<<>>},
        w \in {None} \cup {List(ws) : ws \in SeqsUpTo(Weights, MaxSources)}}

\* cls(**kwargs), or cls() of a subclass that sets the fields as class
\* attributes: a dataclass runs post_init; a plain class has object's
\* __init__, which takes no arguments and validates nothing
Instantiate(self, post_init) ==
    IF IsDataclass(self.cls) THEN post_init
    ELSE IF self.via = "keyword_arguments" THEN "TypeError"
    ELSE "ok"

Returned(raised) ==
    /\ outcome' = raised
    /\ instance' = IF raised = "ok" THEN call ELSE NoInstance
    /\ UNCHANGED <<call, rootVars, groundVars, addonVars>>

ConstructSimple ==
    /\ outcome = "pending"
    /\ call.cls = "SimpleRigidBody"
    /\ Returned(Instantiate(call, SimplePostInit(call)))

ConstructCompound ==
    /\ outcome = "pending"
    /\ call.cls = "CompoundRigidBody"
    /\ Returned(Instantiate(call, CompoundPostInit(call)))

ConstructLinkage ==
    /\ outcome = "pending"
    /\ call.cls = "Linkage"
    /\ Returned(Instantiate(call, LinkagePostInit(call)))

ConstructChain ==
    /\ outcome = "pending"
    /\ call.cls = "Chain"
    /\ Returned(Instantiate(call, ChainPostInit(call)))

ConstructKeypointMapping ==
    /\ outcome = "pending"
    /\ call.cls = "KeypointMapping"
    /\ Returned(Instantiate(call, KeypointMappingPostInit(call)))

NoRoot ==
    /\ start = None
    /\ node = None
    /\ pc = "idle"
    /\ result = None

NoGround ==
    /\ keypoint_trajectories = None
    /\ reference = None
    /\ basis = None
    /\ gpc = "idle"
    /\ transformed_trajectories = None

NoFrames ==
    /\ heap = None
    /\ good_frame = None
    /\ returned = None

\* axial_color before generate_color has returned
NoColor == ""

NoMeshes ==
    /\ segment_definitions = None
    /\ axial_color = NoColor
    /\ meshes = None

NoExport ==
    /\ scene = None
    /\ scene_at_call = None
    /\ extension = None
    /\ rig_original_name = None
    /\ epc = "idle"

NoAddon ==
    /\ NoFrames
    /\ keypoints = None
    /\ NoMeshes
    /\ NoExport

Pending(calls) ==
    /\ call \in calls
    /\ outcome = "pending"
    /\ instance = NoInstance
    /\ NoRoot
    /\ NoGround
    /\ NoAddon

----------------------------------------------------------------------------
(* Rigid bodies *)

InitRigidBody == Pending(SimpleCalls \cup CompoundCalls)

NextRigidBody ==
    \/ ConstructSimple
    \/ ConstructCompound

SpecRigidBody == InitRigidBody /\ [][NextRigidBody]_vars

----------------------------------------------------------------------------
(* Linkages *)

InitLinkage == Pending(LinkageCalls)

NextLinkage == ConstructLinkage

SpecLinkage == InitLinkage /\ [][NextLinkage]_vars

----------------------------------------------------------------------------
(* Chains *)

InitChain == Pending(ChainCalls)

NextChain == ConstructChain

SpecChain == InitChain /\ [][NextChain]_vars

----------------------------------------------------------------------------
(* Keypoint mappings *)

InitKeypointMapping == Pending(KeypointMappingCalls)

NextKeypointMapping == ConstructKeypointMapping

SpecKeypointMapping == InitKeypointMapping /\ [][NextKeypointMapping]_vars

----------------------------------------------------------------------------
(* SkeletonABC and the `root` properties *)

Skeleton(p, ch) == [cls |-> "Skeleton", parent |-> p, children |-> ch]

\* a class object used as a value (an imported chain class in a children list)
Class(n) == [cls |-> "type", name |-> n]

\* the linkage full_body_skeleton.py imports as the skeleton's parent: a
\* linkage of two rigid bodies that share the hips keypoint
PelvisSacrumLinkage ==
    Linkage(SimpleRigidBody(Keypoint("HIPS_CENTER"), Keypoint("CHEST_CENTER")),
            SimpleRigidBody(Keypoint("HIPS_CENTER"), Keypoint("NECK_C7")),
            <<Keypoint("HIPS_CENTER")>>)

FullBodySkeleton ==
    Skeleton(PelvisSacrumLinkage,
             <<Class("AxialBodyChain"), Class("RightArmChain"),
               Class("RightLegChain"), Class("LeftArmChain"),
               Class("LeftLegChain")>>)

\* the structural nodes a caller can hold
LinkageInstances ==
    {l \in {Linkage(p, ch, <<k>>) : p \in RigidBodies, ch \in RigidBodies,
                                    k \in Keypoints} :
        LinkagePostInit(l) = "ok"}

ChainInstances ==
    {Chain(l, <<l>>, <<l.parent>>, "class_attributes") : l \in LinkageInstances}

SkeletonInstances ==
    {Skeleton(c, <<c>>) : c \in ChainInstances} \cup {FullBodySkeleton}

StructuralNodes ==
    RigidBodies \cup LinkageInstances \cup ChainInstances \cup SkeletonInstances

\* RigidBodyABC.root, SimpleRigidBodyABC.root, CompoundRigidBodyABC.root:
\* return self.parent
RigidBodyRoot(self) == [returns |-> TRUE, value |-> self.parent]

\* LinkageABC.root: return self.parent.root
LinkageRootBroken(self) == [returns |-> TRUE, value |-> self.parent]

LinkageRoot(self) == [returns |-> FALSE, next |-> self.parent]

\* ChainABC.root: return self.parent.root
ChainRoot(self) == [returns |-> FALSE, next |-> self.parent]

\* SkeletonABC.root: return self.parent.root
SkeletonRoot(self) == [returns |-> FALSE, next |-> self.parent]

\* one property call: either it returns a value, which every caller up the
\* stack returns unchanged, or it evaluates `root` on self.parent
RootCall(step) ==
    /\ IF step.returns
       THEN /\ pc' = "done"
            /\ result' = step.value
            /\ UNCHANGED node
       ELSE /\ node' = step.next
            /\ UNCHANGED <<pc, result>>
    /\ UNCHANGED <<start, constructVars, groundVars, addonVars>>

RootOfRigidBody ==
    /\ pc = "eval"
    /\ node.cls \in {"SimpleRigidBody", "CompoundRigidBody"}
    /\ RootCall(RigidBodyRoot(node))

RootOfLinkage ==
    /\ pc = "eval"
    /\ node.cls = "Linkage"
    /\ RootCall(LinkageRoot(node))

RootOfChain ==
    /\ pc = "eval"
    /\ node.cls = "Chain"
    /\ RootCall(ChainRoot(node))

RootOfSkeleton ==
    /\ pc = "eval"
    /\ node.cls = "Skeleton"
    /\ RootCall(SkeletonRoot(node))

InitRoot ==
    /\ start \in StructuralNodes
    /\ node = start
    /\ pc = "eval"
    /\ result = None
    /\ call = None
    /\ outcome = "ok"
    /\ instance = NoInstance
    /\ NoGround
    /\ NoAddon

NextRoot ==
    \/ RootOfRigidBody
    \/ RootOfLinkage
    \/ RootOfChain
    \/ RootOfSkeleton

\* a property call that has started runs on: the interpreter does not stop
SpecRoot == InitRoot /\ [][NextRoot]_vars /\ WF_vars(NextRoot)

----------------------------------------------------------------------------
(* put_skeleton_on_ground.py.  Positions are exact: a coordinate is an      *)
(* integer count of 1/Scale length units, so that the means of two and of   *)
(* four grid points are integers too.  A unit vector v / norm(v) is kept as *)
(* the shortest integer vector of its direction, and 0 / 0 as NaN.          *)

Scale == 2 * 2

Vec(a, b, c) == <<a, b, c>>

VecAdd(u, v) == <<u[1] + v[1], u[2] + v[2], u[3] + v[3]>>

VecSub(u, v) == <<u[1] - v[1], u[2] - v[2], u[3] - v[3]>>

Dot(u, v) == u[1] * v[1] + u[2] * v[2] + u[3] * v[3]

\* np.cross
Cross(u, v) ==
    <<u[2] * v[3] - u[3] * v[2],
      u[3] * v[1] - u[1] * v[3],
      u[1] * v[2] - u[2] * v[1]>>

NormSq(u) == Dot(u, u)

Zero == <<0, 0, 0>>

Abs(a) == IF a < 0 THEN -a ELSE a

RECURSIVE Gcd(_, _)
Gcd(a, b) == IF b = 0 THEN a ELSE Gcd(b, a % b)

\* the shortest integer vector with the direction of u (u # Zero)
Primitive(u) ==
    LET g == Gcd(Gcd(Abs(u[1]), Abs(u[2])), Abs(u[3]))
    IN  <<u[1] \div g, u[2] \div g, u[3] \div g>>

NaNVector == [nan |-> TRUE, dir |-> Zero]

\* v / np.linalg.norm(v): the zero vector gives 0 / 0 = nan in every
\* component (numpy warns and goes on)
Normalize(v) ==
    IF NormSq(v) = 0 THEN NaNVector ELSE [nan |-> FALSE, dir |-> Primitive(v)]

\* np.nanmean(points, axis=0) of points without missing components
Mean(points) ==
    LET n == Len(points)
        Component(i) == SumSeq([k \in 1..n |-> points[k][i]]) \div n
    IN  <<Component(1), Component(2), Component(3)>>

\* BodyKeypoints.<MEMBER>.name.lower()
RIGHT_HEEL == "right_heel"

LEFT_HEEL == "left_heel"

RIGHT_HALLUX_TIP == "right_hallux_tip"

LEFT_HALLUX_TIP == "left_hallux_tip"

SKULL_ORIGIN_FORAMEN_MAGNUM == "skull_origin_foramen_magnum"

GroundReferenceKeys == {RIGHT_HEEL, LEFT_HEEL, RIGHT_HALLUX_TIP, LEFT_HALLUX_TIP}

TrajectoryKeys == GroundReferenceKeys \cup {SKULL_ORIGIN_FORAMEN_MAGNUM}

GridPoints ==
    {Vec(Scale * a, Scale * b, Scale * c) : a, b, c \in 0..MaxCoord}

\* the captures considered: at the good frame the right heel is at the
\* origin of the capture volume, the left heel at the same height, and
\* every other keypoint on a grid point
Captures ==
    {t \in [TrajectoryKeys -> GridPoints] :
        t[RIGHT_HEEL] = Zero /\ t[LEFT_HEEL][3] = 0}

\* lines 14-38: the four points handed to estimate_orthonormal_basis
ReferencePoints(trajectories) ==
    [center_reference_point |->
        Mean(<<trajectories[RIGHT_HEEL], trajectories[LEFT_HEEL],
               trajectories[RIGHT_HALLUX_TIP], trajectories[LEFT_HALLUX_TIP]>>),
     x_forward_reference_point |->
        Mean(<<trajectories[RIGHT_HALLUX_TIP], trajectories[LEFT_HALLUX_TIP]>>),
     y_leftward_reference_point |->
        Mean(<<trajectories[LEFT_HALLUX_TIP], trajectories[LEFT_HEEL]>>),
     z_upward_reference_point |-> trajectories[SKULL_ORIGIN_FORAMEN_MAGNUM]]

\* "Make them orthogonal" with x_hat = cross(z_hat, y_hat)
OrthogonalizeSwappedX(x_forward, y_left) ==
    LET z_hat == Cross(x_forward, y_left)
        y_hat == Cross(z_hat, x_forward)
        x_hat == Cross(z_hat, y_hat)
    IN  [x_hat |-> x_hat, y_hat |-> y_hat, z_hat |-> z_hat]

\* "Make them orthogonal" with y_hat = cross(z_hat, y_left)
OrthogonalizeYFromLeft(x_forward, y_left) ==
    LET z_hat == Cross(x_forward, y_left)
        y_hat == Cross(z_hat, y_left)
        x_hat == Cross(y_hat, z_hat)
    IN  [x_hat |-> x_hat, y_hat |-> y_hat, z_hat |-> z_hat]

\* "Make them orthogonal" with z_hat = cross(y_left, x_forward)
OrthogonalizeSwappedZ(x_forward, y_left) ==
    LET z_hat == Cross(y_left, x_forward)
        y_hat == Cross(z_hat, x_forward)
        x_hat == Cross(y_hat, z_hat)
    IN  [x_hat |-> x_hat, y_hat |-> y_hat, z_hat |-> z_hat]

\* "Make them orthogonal" (lines 137-140)
Orthogonalize(x_forward, y_left) ==
    LET z_hat == Cross(x_forward, y_left)
        y_hat == Cross(z_hat, x_forward)
        x_hat == Cross(y_hat, z_hat)
    IN  [x_hat |-> x_hat, y_hat |-> y_hat, z_hat |-> z_hat]

\* z_up is computed (line 135) and not used
estimate_orthonormal_basis(center_reference_point, x_forward_reference_point, y_leftward_reference_point, z_upward_reference_point) ==
    IF \/ Len(center_reference_point) # 3
       \/ Len(x_forward_reference_point) # 3
       \/ Len(y_leftward_reference_point) # 3
       \/ Len(z_upward_reference_point) # 3
    THEN [raised |-> "ValueError"]
    ELSE LET x_forward == VecSub(x_forward_reference_point, center_reference_point)
             y_left == VecSub(y_leftward_reference_point, center_reference_point)
             z_up == VecSub(z_upward_reference_point, center_reference_point)
             o == Orthogonalize(x_forward, y_left)
         IN  [raised |-> "ok",
              x_hat |-> Normalize(o.x_hat),
              y_hat |-> Normalize(o.y_hat),
              z_hat |-> Normalize(o.z_hat)]

\* np.allclose(np.linalg.norm(h), 1): a normalized vector has norm 1, nan is
\* close to nothing
IsUnit(h) == ~h.nan

\* np.allclose(np.dot(g, h), 0)
IsOrthogonal(g, h) == ~g.nan /\ ~h.nan /\ Dot(g.dir, h.dir) = 0

\* np.allclose(np.cross(f, g), h) for unit vectors: the cross product has
\* norm 1 exactly when f and g are orthogonal, and then equals the unit
\* vector h exactly when it has h's direction
CrossIs(f, g, h) ==
    /\ IsOrthogonal(f, g)
    /\ ~h.nan
    /\ Primitive(Cross(f.dir, g.dir)) = h.dir

\* np.allclose(rotation_matrix @ h, e_i): h has product 1 with row i and 0
\* with the two other rows
RotatesToAxis(b, h, i) ==
    LET rows == <<b.x_hat, b.y_hat, b.z_hat>>
    IN  \A j \in 1..3 :
            IF j = i THEN ~h.nan /\ rows[j] = h ELSE IsOrthogonal(rows[j], h)

Det(u, v, w) == Dot(Cross(u, v), w)

\* np.allclose(np.linalg.det(rotation_matrix), 1): the determinant of unit
\* rows is 1 exactly when they are pairwise orthogonal and right-handed
DetIsOne(b) ==
    /\ IsOrthogonal(b.x_hat, b.y_hat)
    /\ IsOrthogonal(b.y_hat, b.z_hat)
    /\ IsOrthogonal(b.z_hat, b.x_hat)
    /\ Det(b.x_hat.dir, b.y_hat.dir, b.z_hat.dir) > 0

\* the assert statements of lines 47-59
AssertionsHold(b) ==
    /\ IsUnit(b.x_hat)
    /\ IsUnit(b.y_hat)
    /\ IsUnit(b.z_hat)
    /\ IsOrthogonal(b.z_hat, b.y_hat)
    /\ IsOrthogonal(b.z_hat, b.x_hat)
    /\ IsOrthogonal(b.y_hat, b.x_hat)
    /\ CrossIs(b.x_hat, b.y_hat, b.z_hat)
    /\ CrossIs(b.y_hat, b.z_hat, b.x_hat)
    /\ CrossIs(b.z_hat, b.x_hat, b.y_hat)
    /\ RotatesToAxis(b, b.x_hat, 1)
    /\ RotatesToAxis(b, b.y_hat, 2)
    /\ RotatesToAxis(b, b.z_hat, 3)
    /\ DetIsOne(b)

\* one coordinate of a rotated point: the product of a unit row with the
\* translated point, the number num / (Scale * sqrt(nsq))
Coordinate(row, v) ==
    IF row.nan THEN [nan |-> TRUE, num |-> 0, nsq |-> 0]
    ELSE [nan |-> FALSE, num |-> Dot(row.dir, v), nsq |-> NormSq(row.dir)]

translate_points(points, translation_vector) == VecAdd(points, translation_vector)

\* points @ rotation_matrix.T
rotate_points(points, rotation_matrix) ==
    [i \in 1..3 |-> Coordinate(rotation_matrix[i], points)]

transform_points(points, translation_vector, rotation_matrix) ==
    rotate_points(translate_points(points, translation_vector), rotation_matrix)

Negated(v) == <<-v[1], -v[2], -v[3]>>

\* lines 14-38
ExtractReferencePoints ==
    /\ gpc = "start"
    /\ reference' = ReferencePoints(keypoint_trajectories)
    /\ gpc' = "extracted"
    /\ UNCHANGED <<keypoint_trajectories, basis, transformed_trajectories>>
    /\ UNCHANGED <<constructVars, rootVars, addonVars>>

\* lines 40-44: the call of estimate_orthonormal_basis and its return
EstimateBasis ==
    /\ gpc = "extracted"
    /\ LET b == estimate_orthonormal_basis(reference.center_reference_point,
                                           reference.x_forward_reference_point,
                                           reference.y_leftward_reference_point,
                                           reference.z_upward_reference_point)
       IN  IF b.raised = "ok"
           THEN /\ basis' = [x_hat |-> b.x_hat, y_hat |-> b.y_hat, z_hat |-> b.z_hat]
                /\ gpc' = "estimated"
           ELSE /\ basis' = basis
                /\ gpc' = b.raised
    /\ UNCHANGED <<keypoint_trajectories, reference, transformed_trajectories>>
    /\ UNCHANGED <<constructVars, rootVars, addonVars>>

\* lines 46-59
ValidateBasis ==
    /\ gpc = "estimated"
    /\ gpc' = IF AssertionsHold(basis) THEN "validated" ELSE "AssertionError"
    /\ UNCHANGED <<keypoint_trajectories, reference, basis, transformed_trajectories>>
    /\ UNCHANGED <<constructVars, rootVars, addonVars>>

\* lines 64-72
TransformTrajectories ==
    /\ gpc = "validated"
    /\ transformed_trajectories' =
          [key \in DOMAIN keypoint_trajectories |->
              transform_points(keypoint_trajectories[key],
                               Negated(reference.center_reference_point),
                               <<basis.x_hat, basis.y_hat, basis.z_hat>>)]
    /\ gpc' = "returned"
    /\ UNCHANGED <<keypoint_trajectories, reference, basis>>
    /\ UNCHANGED <<constructVars, rootVars, addonVars>>

InitGround ==
    /\ keypoint_trajectories \in Captures
    /\ reference = None
    /\ basis = None
    /\ gpc = "start"
    /\ transformed_trajectories = None
    /\ call = None
    /\ outcome = "ok"
    /\ instance = NoInstance
    /\ NoRoot
    /\ NoAddon

NextGround ==
    \/ ExtractReferencePoints
    \/ EstimateBasis
    \/ ValidateBasis
    \/ TransformTrajectories

SpecGround == InitGround /\ [][NextGround]_vars

----------------------------------------------------------------------------
(* put_skeleton_on_ground over a whole recording.  The caller's mapping, its *)
(* Trajectory objects and their arrays are objects of a heap, so that a      *)
(* write through a shared reference shows in the caller's objects.  A point  *)
(* of an input array is its three coordinates and, for each, whether it is   *)
(* NaN; a point of a transformed array is three Coordinate values.           *)

\* most frames of a recording
MaxFrames == 2

\* most points of a recording with missing (NaN) coordinates
MaxMissing == 1

\* a keypoint that is no reference of the ground frame
NOSE == "nose"

Pose(right_heel, left_heel, right_hallux_tip, left_hallux_tip, skull, nose) ==
    [key \in TrajectoryKeys \cup {NOSE} |->
        LET p == CASE key = RIGHT_HEEL -> right_heel
                   [] key = LEFT_HEEL -> left_heel
                   [] key = RIGHT_HALLUX_TIP -> right_hallux_tip
                   [] key = LEFT_HALLUX_TIP -> left_hallux_tip
                   [] key = SKULL_ORIGIN_FORAMEN_MAGNUM -> skull
                   [] OTHER -> nose
        IN  Vec(Scale * p[1], Scale * p[2], Scale * p[3])]

\* the poses of a recording: feet square on the floor with the head above
\* the right heel; feet apart and one toe lifted, forward and leftward not
\* orthogonal; every keypoint tracked at one point, no direction defined
Poses ==
    {Pose(<<0, 0, 0>>, <<0, 1, 0>>, <<1, 0, 0>>, <<1, 1, 0>>, <<0, 0, 1>>, <<1, 0, 1>>),
     Pose(<<0, 0, 0>>, <<1, 1, 0>>, <<1, 0, 0>>, <<1, 1, 1>>, <<0, 1, 1>>, <<1, 1, 1>>),
     Pose(<<1, 1, 0>>, <<1, 1, 0>>, <<1, 1, 0>>, <<1, 1, 0>>, <<1, 1, 0>>, <<1, 1, 0>>)}

\* which coordinates of a missing point are NaN: all, or the first only
Masks == {<<TRUE, TRUE, TRUE>>, <<TRUE, FALSE, FALSE>>}

\* the keypoints that go missing: a reference of the ground frame, the head
\* and a keypoint that is neither
OccludedKeys == {RIGHT_HEEL, SKULL_ORIGIN_FORAMEN_MAGNUM, NOSE}

\* the missing points of a recording: (key, frame) -> mask
MissingPoints(keys, n) ==
    UNION {[Range(es) -> Masks] : es \in SeqsUpTo(keys \X (1..n), MaxMissing)}

\* trajectory_data of one keypoint, frames x 3
InputArray(poses, missing, key) ==
    [cls |-> "ndarray",
     frames |->
        [f \in 1..Len(poses) |->
            LET nan == IF <<key, f>> \in DOMAIN missing
                       THEN missing[<<key, f>>] ELSE <<FALSE, FALSE, FALSE>>
            IN  [xyz |-> [i \in 1..3 |-> IF nan[i] THEN 0 ELSE poses[f][key][i]],
                 nan |-> nan]]]

Address(gen, kind, key) == [gen |-> gen, kind |-> kind, key |-> key]

\* the keypoint_trajectories argument
Argument == Address("input", "dict", "")

\* the caller's objects: the mapping, a Trajectory per key, an array per
\* Trajectory
InputHeap(keys, poses, missing) ==
    [a \in {Argument} \cup {Address("input", kind, key) :
                                kind \in {"Trajectory", "ndarray"}, key \in keys} |->
        CASE a.kind = "dict" ->
                [cls |-> "dict",
                 items |-> [key \in keys |-> Address("input", "Trajectory", key)]]
          [] a.kind = "Trajectory" ->
                [cls |-> "Trajectory", name |-> a.key,
                 trajectory_data |-> Address("input", "ndarray", a.key)]
          [] OTHER -> InputArray(poses, missing, a.key)]

InputHeaps ==
    {InputHeap(keys, poses, missing) :
        keys \in {TrajectoryKeys, TrajectoryKeys \cup {NOSE}},
        poses \in SeqsUpTo(Poses, MaxFrames) \ {<<>>},
        missing \in MissingPoints(OccludedKeys, MaxFrames)}

\* mapping[key].trajectory_data
TrajectoryData(h, mapping, key) == h[h[h[mapping].items[key]].trajectory_data].frames

NumberOfFrames(h, mapping) ==
    Len(TrajectoryData(h, mapping, CHOOSE key \in DOMAIN h[mapping].items : TRUE))

IsMissing(point) == \E i \in 1..3 : point.nan[i]

\* get_low_velocity_frame: the frame of least velocity of the reference
\* keypoints among the frames where all of them are tracked; which of these
\* frames has the least velocity is left open
LowVelocityFrames(h, trajectories) ==
    {f \in 1..NumberOfFrames(h, trajectories) :
        \A key \in GroundReferenceKeys :
            ~IsMissing(TrajectoryData(h, trajectories, key)[f])}

\* the address deepcopy allocates for the copy of an object
Copy(a) == [a EXCEPT !.gen = "copy"]

\* transformed_trajectories = keypoint_trajectories
deepcopyReference(h, mapping) == [heap |-> h, ref |-> mapping]

\* copy.deepcopy of a mapping: a new dict, a new Trajectory per key, a new
\* array per Trajectory
deepcopy(h, mapping) ==
    LET trajectories == {h[mapping].items[key] : key \in DOMAIN h[mapping].items}
        arrays == {h[t].trajectory_data : t \in trajectories}
        copied == {mapping} \cup trajectories \cup arrays
        CopyOf(a) ==
            CASE h[a].cls = "dict" ->
                    [h[a] EXCEPT !.items = [key \in DOMAIN @ |-> Copy(@[key])]]
              [] h[a].cls = "Trajectory" ->
                    [h[a] EXCEPT !.trajectory_data = Copy(@)]
              [] OTHER -> h[a]
    IN  [heap |-> [a \in DOMAIN h \cup {Copy(c) : c \in copied} |->
                      IF a \in DOMAIN h THEN h[a]
                      ELSE CopyOf(CHOOSE c \in copied : Copy(c) = a)],
         ref |-> Copy(mapping)]

NaNCoordinate == [nan |-> TRUE, num |-> 0, nsq |-> 0]

\* points + translation_vector, row by row: nan + t is nan
translate_frames(points, translation_vector) ==
    [f \in DOMAIN points |->
        [xyz |-> [i \in 1..3 |->
                    IF points[f].nan[i] THEN 0
                    ELSE translate_points(points[f].xyz, translation_vector)[i]],
         nan |-> points[f].nan]]

\* points @ rotation_matrix.T with the NaN coordinates read as 0
rotate_frames_nan_to_num(points, rotation_matrix) ==
    [f \in DOMAIN points |-> rotate_points(points[f].xyz, rotation_matrix)]

\* points @ rotation_matrix.T, row by row: a coordinate of the product is a
\* sum over the three coordinates of the row, nan when one of them is
rotate_frames(points, rotation_matrix) ==
    [f \in DOMAIN points |->
        IF IsMissing(points[f]) THEN [i \in 1..3 |-> NaNCoordinate]
        ELSE rotate_points(points[f].xyz, rotation_matrix)]

\* rotate_points(points, rotation_matrix): the translation is left out
transform_frames_untranslated(points, translation_vector, rotation_matrix) ==
    rotate_frames(points, rotation_matrix)

transform_frames(points, translation_vector, rotation_matrix) ==
    rotate_frames(translate_frames(points, translation_vector), rotation_matrix)

\* line 21, and the reads at the good frame of lines 23-25 and 37-38
SelectGoodFrame ==
    /\ gpc = "called"
    /\ IF LowVelocityFrames(heap, Argument) = {}
       THEN /\ gpc' = "MissingReferenceDataError"
            /\ UNCHANGED <<good_frame, keypoint_trajectories>>
       ELSE \E f \in LowVelocityFrames(heap, Argument) :
                /\ good_frame' = f
                /\ keypoint_trajectories' =
                      [key \in TrajectoryKeys |->
                          TrajectoryData(heap, Argument, key)[f].xyz]
                /\ gpc' = "start"
    /\ UNCHANGED <<reference, basis, transformed_trajectories, heap, returned>>
    /\ UNCHANGED <<constructVars, rootVars, keypoints, meshVars, exportVars>>

\* lines 64-72: the copy, the loop over the keys and the return
TransformRecording ==
    /\ gpc = "validated"
    /\ LET c == deepcopy(heap, Argument)
           keys == DOMAIN c.heap[Argument].items
           Result(key) == Address("result", "ndarray", key)
       IN  /\ heap' =
                 [a \in DOMAIN c.heap \cup {Result(key) : key \in keys} |->
                     IF a \in {Result(key) : key \in keys}
                     THEN [cls |-> "ndarray",
                           frames |->
                              transform_frames(
                                  TrajectoryData(c.heap, Argument, a.key),
                                  Negated(reference.center_reference_point),
                                  <<basis.x_hat, basis.y_hat, basis.z_hat>>)]
                     ELSE IF \E key \in keys : a = c.heap[c.ref].items[key]
                     THEN [c.heap[a] EXCEPT !.trajectory_data =
                              Result(CHOOSE key \in keys : a = c.heap[c.ref].items[key])]
                     ELSE c.heap[a]]
           /\ returned' = c.ref
    /\ gpc' = "returned"
    /\ UNCHANGED <<keypoint_trajectories, reference, basis, transformed_trajectories, good_frame>>
    /\ UNCHANGED <<constructVars, rootVars, keypoints, meshVars, exportVars>>

InitTransform ==
    /\ heap \in InputHeaps
    /\ good_frame = None
    /\ returned = None
    /\ keypoint_trajectories = None
    /\ reference = None
    /\ basis = None
    /\ gpc = "called"
    /\ transformed_trajectories = None
    /\ call = None
    /\ outcome = "ok"
    /\ instance = NoInstance
    /\ NoRoot
    /\ keypoints = None
    /\ NoMeshes
    /\ NoExport

NextTransform ==
    \/ SelectGoodFrame
    \/ ExtractReferencePoints
    \/ EstimateBasis
    \/ ValidateBasis
    \/ TransformRecording

SpecTransform == InitTransform /\ [][NextTransform]_vars

----------------------------------------------------------------------------
(* estimate_orthonormal_basis called on its own, on reference points that    *)
(* are not the means of foot positions.                                      *)

\* a reference point lies one length unit or none from the center along each
\* axis
Offsets ==
    {Vec(Scale * a, Scale * b, Scale * c) : a, b, c \in {-1, 0, 1}}

\* the six points one length unit from the origin along an axis
AxisOffsets == {v \in Offsets : NormSq(v) = Scale * Scale}

ReferenceQuadruples ==
    {[center_reference_point |-> c,
      x_forward_reference_point |-> VecAdd(c, f),
      y_leftward_reference_point |-> VecAdd(c, l),
      z_upward_reference_point |-> VecAdd(c, u)] :
        c \in GridPoints, f \in Offsets, l \in Offsets, u \in AxisOffsets}

InitBasis ==
    /\ reference \in ReferenceQuadruples
    /\ keypoint_trajectories = None
    /\ basis = None
    /\ gpc = "extracted"
    /\ transformed_trajectories = None
    /\ call = None
    /\ outcome = "ok"
    /\ instance = NoInstance
    /\ NoRoot
    /\ NoAddon

NextBasis ==
    \/ EstimateBasis
    \/ ValidateBasis

SpecBasis == InitBasis /\ [][NextBasis]_vars

----------------------------------------------------------------------------
(* tracked_points_classes.py *)

\* most dimensions of a trajectory array
MaxRank == 4

\* largest extent of a dimension, and most trajectory names
MaxExtent == 3

\* the names the module binds before the body of GenericTrackedPoints runs:
\* the imports of lines 1-10
ModuleGlobals ==
    {"dataclass", "field", "List", "np", "TrackedPointName", "Trajectory",
     "DataComponentTypes", "TrackerSourceType", "TypeSafeDataclass"}

\* a Python name is looked up when the expression holding it is evaluated
Lookup(name) == IF name \in ModuleGlobals THEN "ok" ELSE "NameError"

\* when the interpreter evaluates the annotation of a def: with the def
\* statement, or not before the annotation is asked for
AnnotationEvaluation == {"eager", "deferred"}

\* the class statement of lines 13-48: its body runs the def of line 38,
\* whose return annotation is the name KeypointTrajectories
ClassStatement(annotations) ==
    IF annotations = "eager" THEN Lookup("KeypointTrajectories") ELSE "ok"

NdArray(shape) == [cls |-> "ndarray", shape |-> shape]

GenericTrackedPoints(data, names, source, component, annotations) ==
    [cls |-> "GenericTrackedPoints", trajectory_data |-> data,
     trajectory_names |-> names, tracker_source |-> source,
     component_type |-> component, annotations |-> annotations]

number_of_trajectories(self) == self.trajectory_data.shape[2]

\* lines 29-36
TrackedPointsPostInit(self) ==
    IF ~(Len(self.trajectory_data.shape) = 3) THEN "ValueError"
    ELSE IF ~(self.trajectory_data.shape[3] = 3) THEN "ValueError"
    ELSE IF ~(number_of_trajectories(self) = Len(self.trajectory_names)) THEN "ValueError"
    ELSE "ok"

TrackerSources == {"mediapipe", "openpose"}

\* the mapping enumerations: members in definition order, each the canonical
\* keypoint name and the tracked point it is read from
BodyMapping(source) ==
    IF source = "mediapipe"
    THEN <<[name |-> "NOSE", value |-> "nose"],
           [name |-> "LEFT_EYE", value |-> "left_eye"]>>
    ELSE <<[name |-> "LEFT_EYE", value |-> "left_eye"],
           [name |-> "NOSE", value |-> "nose"]>>

get_mapping(component_type, tracker_source) == BodyMapping(tracker_source)

\* str.lower() of a member name
Lower(name) ==
    CASE name = "NOSE" -> "nose"
      [] name = "LEFT_EYE" -> "left_eye"

\* Trajectory(name=..., trajectory_data=...)
Trajectory(name, data) == [cls |-> "Trajectory", name |-> name, trajectory_data |-> data]

\* mapping.value.calculate_trajectory(data, names): the frames x 3 array of
\* the tracked point of that name
calculate_trajectory(value, data, names) ==
    [cls |-> "ndarray", shape |-> <<data.shape[1], data.shape[3]>>,
     column |-> CHOOSE i \in 0..Len(names) : i = 0 \/ names[i] = value]

\* lines 38-48: the dict, as its items in insertion order
map_to_keypoints(self) ==
    IF Lookup("get_mapping") # "ok" THEN [raised |-> Lookup("get_mapping")]
    ELSE LET mapping == get_mapping(self.component_type, self.tracker_source)
         IN  [raised |-> "ok",
              items |->
                 [i \in 1..Len(mapping) |->
                     <<Lower(mapping[i].name),
                       Trajectory(Lower(mapping[i].name),
                                  calculate_trajectory(mapping[i].value,
                                                       self.trajectory_data,
                                                       self.trajectory_names))>>]]

TrackedPointsCalls ==
    {GenericTrackedPoints(NdArray(shape), names, source, "BODY", annotations) :
        shape \in SeqsUpTo(1..MaxExtent, MaxRank),
        names \in SeqsUpTo(TrackerNames, MaxExtent),
        source \in TrackerSources,
        annotations \in AnnotationEvaluation}

\* GenericTrackedPoints(...): the class exists once its class statement has
\* run
ConstructTrackedPoints ==
    /\ outcome = "pending"
    /\ call.cls = "GenericTrackedPoints"
    /\ Returned(IF ClassStatement(call.annotations) # "ok"
                THEN ClassStatement(call.annotations)
                ELSE TrackedPointsPostInit(call))

MapToKeypoints ==
    /\ outcome = "ok"
    /\ instance.cls = "GenericTrackedPoints"
    /\ keypoints = None
    /\ keypoints' = map_to_keypoints(instance)
    /\ UNCHANGED <<constructVars, rootVars, groundVars, frameVars, meshVars, exportVars>>

InitTrackedPoints == Pending(TrackedPointsCalls)

NextTrackedPoints ==
    \/ ConstructTrackedPoints
    \/ MapToKeypoints

SpecTrackedPoints == InitTrackedPoints /\ [][NextTrackedPoints]_vars

----------------------------------------------------------------------------
(* put_rigid_body_meshes_on_empties.py.  A segment name is the sequence of   *)
(* its characters, so that `marker in segment_name` is a substring test.    *)

\* most segments of the segment definitions
MaxSegments == 2

\* RightLeft.RIGHT.value
RIGHT == <<"r", "i", "g", "h", "t">>

\* RightLeft.LEFT.value
LEFT == <<"l", "e", "f", "t">>

RECURSIVE Join(_)
Join(words) == IF words = <<>> THEN <<>> ELSE Head(words) \o Join(Tail(words))

\* names of at most two of the words right, left, up, _: "", "left_",
\* "upright", "leftright", ...
SegmentNames ==
    {Join(words) : words \in SeqsUpTo({RIGHT, LEFT, <<"u", "p">>, <<"_">>}, 2)}

\* marker in segment_name
Contains(marker, segment_name) ==
    \E i \in 1..(Len(segment_name) - Len(marker) + 1) :
        SubSeq(segment_name, i, i + Len(marker) - 1) = marker

\* (.8, 1, 1), in tenths
DEFAULT_APPENDICULAR_RIGID_BODY_MESH_SQUISH == <<8, 10, 10>>

\* (1.0, 1.0, 1.0), in tenths
DEFAULT_AXIAL_RIGID_BODY_MESH_SQUISH == <<10, 10, 10>>

DEFAULT_LEFT_SIDE_COLOR == "#0033BB"

DEFAULT_RIGHT_SIDE_COLOR == "#BB0033"

\* what generate_color(ColorType.JEWEL) may return
JewelColors == {"#0F52BA", "#50C878"}

blenderize_name(name) == [blenderized |-> name]

\* a segment definition: the keypoints it joins and its length
Segment(parent, child) == [parent |-> parent, child |-> child, length |-> 1]

\* the items of segment_definitions: names are the keys of a dict, so no
\* two items have the same name
SegmentDefinitions ==
    {items \in SeqsUpTo(SegmentNames \X {Segment("HEAD_CENTER", "HEAD_TOP"),
                                          Segment("HEAD_TOP", "HEAD_CENTER")},
                        MaxSegments) :
        \A i, j \in 1..Len(items) : i # j => items[i][1] # items[j][1]}

\* parented_empties: an empty object per keypoint, keyed by blenderized name
ParentedEmpties ==
    [parent_name |-> "rig",
     parent_object |-> [type |-> "EMPTY", name |-> "rig"],
     empties |-> [key \in {blenderize_name(k) : k \in KeypointNames} |->
                     [type |-> "EMPTY", name |-> key]]]

\* lines 30-40 with the left marker tested first
get_color_and_squish_left_first(segment_name, axial) ==
    IF Contains(LEFT, segment_name)
    THEN <<DEFAULT_LEFT_SIDE_COLOR, DEFAULT_APPENDICULAR_RIGID_BODY_MESH_SQUISH>>
    ELSE IF Contains(RIGHT, segment_name)
    THEN <<DEFAULT_RIGHT_SIDE_COLOR, DEFAULT_APPENDICULAR_RIGID_BODY_MESH_SQUISH>>
    ELSE <<axial, DEFAULT_AXIAL_RIGID_BODY_MESH_SQUISH>>

\* lines 30-40
get_color_and_squish(segment_name, axial) ==
    IF Contains(RIGHT, segment_name)
    THEN <<DEFAULT_RIGHT_SIDE_COLOR, DEFAULT_APPENDICULAR_RIGID_BODY_MESH_SQUISH>>
    ELSE IF Contains(LEFT, segment_name)
    THEN <<DEFAULT_LEFT_SIDE_COLOR, DEFAULT_APPENDICULAR_RIGID_BODY_MESH_SQUISH>>
    ELSE <<axial, DEFAULT_AXIAL_RIGID_BODY_MESH_SQUISH>>

\* the object make_rigid_body_mesh returns: it keeps what it was given
make_rigid_body_mesh(name, length, squish_scale, joint_color, cone_color, axis_visible) ==
    [type |-> "MESH", name |-> name, length |-> length,
     squish_scale |-> squish_scale, joint_color |-> joint_color,
     cone_color |-> cone_color, axis_visible |-> axis_visible,
     constraints |-> <<>>, parent |-> None]

\* lines 45-61: the body of the loop for one item
RigidBodyMesh(parented_empties, segment_name, segment, axial) ==
    LET color_and_squish == get_color_and_squish(segment_name, axial)
        color == color_and_squish[1]
        squish_scale == color_and_squish[2]
        bone_mesh ==
            make_rigid_body_mesh(
                blenderize_name(<<parented_empties.parent_name, segment_name>>),
                segment.length, squish_scale, color, color, FALSE)
        location_constraint ==
            [type |-> "COPY_LOCATION",
             target |-> parented_empties.empties[blenderize_name(segment.parent)]]
        track_to_constraint ==
            [type |-> "DAMPED_TRACK",
             target |-> parented_empties.empties[blenderize_name(segment.child)],
             track_axis |-> "TRACK_Z"]
    IN  [bone_mesh EXCEPT
            !.constraints = <<location_constraint, track_to_constraint>>,
            !.parent = parented_empties.parent_object]

\* line 24
GenerateAxialColor ==
    /\ axial_color = NoColor
    /\ axial_color' \in JewelColors
    /\ UNCHANGED <<segment_definitions, meshes>>
    /\ UNCHANGED <<constructVars, rootVars, groundVars, frameVars, keypoints, exportVars>>

\* lines 42-61: one turn of the loop
MakeRigidBodyMesh ==
    /\ axial_color # NoColor
    /\ Len(meshes) < Len(segment_definitions)
    /\ LET item == segment_definitions[Len(meshes) + 1]
       IN  meshes' = Append(meshes, RigidBodyMesh(ParentedEmpties, item[1], item[2], axial_color))
    /\ UNCHANGED <<segment_definitions, axial_color>>
    /\ UNCHANGED <<constructVars, rootVars, groundVars, frameVars, keypoints, exportVars>>

InitMeshes ==
    /\ segment_definitions \in SegmentDefinitions
    /\ axial_color = NoColor
    /\ meshes = <<>>
    /\ call = None
    /\ outcome = "ok"
    /\ instance = NoInstance
    /\ NoRoot
    /\ NoGround
    /\ NoFrames
    /\ keypoints = None
    /\ NoExport

NextMeshes ==
    \/ GenerateAxialColor
    \/ MakeRigidBodyMesh

SpecMeshes == InitMeshes /\ [][NextMeshes]_vars

----------------------------------------------------------------------------
(* export_3d_model.py.  An object name is its base and the number of the    *)
(* ".001" suffix Blender gives a name that is taken (0: no suffix).          *)

\* most objects of a scene
MaxObjects == 3

Name(base, suffix) == [base |-> base, suffix |-> suffix]

ROOT == Name("root", 0)

SKELLY_MESH == Name("skelly_mesh", 0)

Object(type, name) == [type |-> type, name |-> name, select |-> TRUE]

\* bpy.data.objects: no two objects have the same name
Scenes ==
    {objects \in SeqsUpTo({Object(type, name) : type \in {"ARMATURE", "MESH"},
                                                 name \in {ROOT, SKELLY_MESH, Name("rig", 0), Name("armature", 0)}}, MaxObjects) :
        \A i, j \in 1..Len(objects) : i # j => objects[i].name # objects[j].name}

\* capture_object.name = name: a name another object has gets the first
\* free suffix
SetName(objects, i, name) ==
    LET Taken(n) == \E j \in 1..Len(objects) : j # i /\ objects[j].name = n
        unique == IF ~Taken(name) THEN name
                  ELSE Name(name.base,
                            CHOOSE k \in 1..Len(objects) :
                                /\ ~Taken(Name(name.base, k))
                                /\ \A m \in 1..(k - 1) : Taken(Name(name.base, m)))
    IN  [objects EXCEPT ![i].name = unique]

\* lines 17-26, from the i-th object on
RECURSIVE RenameAndSelectRigs(_, _, _)
RenameAndSelectRigs(objects, original_name, i) ==
    IF i > Len(objects)
    THEN [objects |-> objects, rig_original_name |-> original_name]
    ELSE IF objects[i].type = "ARMATURE"
    THEN LET renamed == IF objects[i].name # ROOT
                        THEN SetName(objects, i, ROOT) ELSE objects
         IN  RenameAndSelectRigs([renamed EXCEPT ![i].select = TRUE],
                                 objects[i].name, i + 1)
    ELSE RenameAndSelectRigs(objects, original_name, i + 1)

\* lines 97-101, from the i-th object on
RECURSIVE RestoreRigNames(_, _, _)
RestoreRigNames(objects, original_name, i) ==
    IF i > Len(objects) THEN objects
    ELSE IF objects[i].type = "ARMATURE"
    THEN RestoreRigNames(SetName(objects, i, original_name), original_name, i + 1)
    ELSE RestoreRigNames(objects, original_name, i + 1)

UnchangedByExport ==
    UNCHANGED <<constructVars, rootVars, groundVars, frameVars, keypoints, meshVars>>

\* lines 14-26
SelectRigs ==
    /\ epc = "called"
    /\ LET deselected == [i \in 1..Len(scene) |-> [scene[i] EXCEPT !.select = FALSE]]
           done == RenameAndSelectRigs(deselected, rig_original_name, 1)
       IN  /\ scene' = done.objects
           /\ rig_original_name' = done.rig_original_name
    /\ epc' = "renamed"
    /\ UNCHANGED <<scene_at_call, extension>>
    /\ UnchangedByExport

\* line 29
SelectMesh ==
    /\ epc = "renamed"
    /\ IF \E i \in 1..Len(scene) : scene[i].name = SKELLY_MESH
       THEN /\ scene' = [i \in 1..Len(scene) |->
                            IF scene[i].name = SKELLY_MESH
                            THEN [scene[i] EXCEPT !.select = TRUE] ELSE scene[i]]
            /\ epc' = "selected"
       ELSE /\ scene' = scene
            /\ epc' = "KeyError"
    /\ UNCHANGED <<scene_at_call, extension, rig_original_name>>
    /\ UnchangedByExport

\* lines 31-95: export_fbx_bin.save writes the file or raises
ExportModel ==
    /\ epc = "selected"
    /\ IF extension = "fbx" THEN epc' \in {"exported", "OSError"}
       ELSE epc' = "exported"
    /\ UNCHANGED <<scene, scene_at_call, extension, rig_original_name>>
    /\ UnchangedByExport

\* lines 97-101
RestoreRigs ==
    /\ epc = "exported"
    /\ scene' = RestoreRigNames(scene, rig_original_name, 1)
    /\ epc' = "finished"
    /\ UNCHANGED <<scene_at_call, extension, rig_original_name>>
    /\ UnchangedByExport

InitExport ==
    /\ scene \in Scenes
    /\ scene_at_call = scene
    /\ extension \in {"fbx", "bvh"}
    /\ rig_original_name = None
    /\ epc = "called"
    /\ call = None
    /\ outcome = "ok"
    /\ instance = NoInstance
    /\ NoRoot
    /\ NoGround
    /\ NoFrames
    /\ keypoints = None
    /\ NoMeshes

NextExport ==
    \/ SelectRigs
    \/ SelectMesh
    \/ ExportModel
    \/ RestoreRigs

SpecExport == InitExport /\ [][NextExport]_vars

----------------------------------------------------------------------------
(* Properties of construction *)

Constructed(c) == call.cls = c /\ outcome # "pending"

Rejected == outcome # "ok" /\ instance = NoInstance

\* the keypoints a rigid body is made of
StructuralMembers(body) ==
    IF IsInstance(body, "SimpleRigidBody") THEN {body.parent, body.child}
    ELSE {body.parent} \cup Range(body.children)

\* the bodies a linkage joins
AdjoinedBodies(l) ==
    IF IsInstance(l.children, "list")
    THEN {l.parent} \cup Range(l.children.items)
    ELSE {l.parent, l.children}

LinkedKeypointsShared(l) ==
    \A k \in Range(l.linked_keypoints) :
        \A b \in AdjoinedBodies(l) : k \in StructuralMembers(b)

\* C1: a linkage with a non-empty linked_keypoints list is constructed if and
\* only if every linked keypoint is a structural member of the parent body and
\* of the child body or of every body in the children list.
C1_LinkageAcceptedIffLinked ==
    (Constructed("Linkage") /\ call.linked_keypoints # <<>>)
        => (outcome = "ok" <=> LinkedKeypointsShared(call))

ChainSharedBodiesAreParents(c) ==
    \A b \in Range(c.shared_bodies) :
        \E l \in Range(c.children) : b = l.parent

\* C2: constructing a chain one of whose shared bodies is the parent of none
\* of its child linkages fails, so every chain instance has each shared body
\* as the parent of one of its child linkages.
C2_ChainSharedBodiesValidated ==
    Constructed("Chain")
        => /\ ~ChainSharedBodiesAreParents(call) => Rejected
           /\ instance.cls = "Chain" => ChainSharedBodiesAreParents(instance)

Present(k) == k # None

CompoundWellFormed(b) ==
    /\ b.shared_keypoint \in Range(b.children)
    /\ b.positive_x_direction \in Range(b.children)
    /\ Present(b.approximate_positive_y_direction)
          => b.approximate_positive_y_direction \in Range(b.children)
    /\ Present(b.approximate_negative_y_direction)
          => b.approximate_negative_y_direction \in Range(b.children)
    /\ \/ Present(b.approximate_positive_y_direction)
       \/ Present(b.approximate_negative_y_direction)

\* C3: a compound rigid body is constructed if and only if shared_keypoint and
\* positive_x_direction are in children, each y-direction keypoint that is
\* present is in children, and at least one of the two is present; otherwise
\* the constructor raises and no instance is produced.
C3_CompoundAcceptedIffWellFormed ==
    Constructed("CompoundRigidBody")
        => /\ outcome = "ok" <=> CompoundWellFormed(call)
           /\ outcome = "ok" => instance = call
           /\ outcome # "ok" => Rejected

\* C3 witness: the only defect is a negative-y keypoint outside children,
\* and the constructor has raised.
C3_Witness ==
    /\ Constructed("CompoundRigidBody")
    /\ call.shared_keypoint \in Range(call.children)
    /\ call.positive_x_direction \in Range(call.children)
    /\ call.approximate_positive_y_direction \in Range(call.children)
    /\ Present(call.approximate_negative_y_direction)
    /\ call.approximate_negative_y_direction \notin Range(call.children)
    /\ Rejected

\* C4: every constructed simple rigid body has Keypoint instances with
\* different names as parent and child; a call with parent equal to child, or
\* with a parent or child that is no Keypoint, raises.
C4_SimpleBodyDistinctKeypoints ==
    Constructed("SimpleRigidBody")
        => /\ instance.cls = "SimpleRigidBody"
                => /\ instance.parent \in Keypoints
                   /\ instance.child \in Keypoints
                   /\ instance.parent.name # instance.child.name
           /\ (\/ call.parent = call.child
               \/ call.parent \notin Keypoints
               \/ call.child \notin Keypoints) => Rejected

\* C4 witness: parent and child are the same Keypoint and the call has raised.
C4_Witness ==
    /\ Constructed("SimpleRigidBody")
    /\ call.parent \in Keypoints
    /\ call.child = call.parent
    /\ Rejected

\* C5: a keypoint mapping over n source points is constructed when weights are
\* omitted (they become [1/n]*n) and when n weights summing to 1 are given;
\* it raises when the count differs from n or the sum is not 1.
C5_KeypointMappingWeights ==
    Constructed("KeypointMapping")
        => LET n == Len(call.mapping.items) IN
           /\ call.weights = None => outcome = "ok"
           /\ (/\ call.weights # None
               /\ Len(call.weights.items) = n
               /\ SumSeq(call.weights.items) = WeightUnit) => outcome = "ok"
           /\ (/\ call.weights # None
               /\ \/ Len(call.weights.items) # n
                  \/ SumSeq(call.weights.items) # WeightUnit) => Rejected

RECURSIVE BaseRigidBody(_)
\* the rigid body reached from a node by following parent links
BaseRigidBody(n) ==
    IF n.cls \in {"SimpleRigidBody", "CompoundRigidBody"} THEN n
    ELSE BaseRigidBody(n.parent)

RootReturned ==
    /\ pc = "done"
    /\ result.cls = "Keypoint"
    /\ result = BaseRigidBody(start).parent

----------------------------------------------------------------------------
(* Properties of the ground frame *)

\* estimate_orthonormal_basis has returned a basis
Estimated == gpc \in {"estimated", "validated", "AssertionError", "returned"}

Forward ==
    VecSub(reference.x_forward_reference_point, reference.center_reference_point)

Leftward ==
    VecSub(reference.y_leftward_reference_point, reference.center_reference_point)

Upward ==
    VecSub(reference.z_upward_reference_point, reference.center_reference_point)

\* forward and leftward are non-zero and not collinear
NonDegenerate == Cross(Forward, Leftward) # Zero

\* u is a positive multiple of v
PositiveMultiple(u, v) == u # Zero /\ v # Zero /\ Primitive(u) = Primitive(v)

NoNaN == ~basis.x_hat.nan /\ ~basis.y_hat.nan /\ ~basis.z_hat.nan

\* C7: for non-degenerate reference points the returned axes are pairwise
\* orthogonal and right-handed (each cross product of two consecutive axes is
\* a positive multiple of the third, the determinant is positive), and no
\* assertion of put_skeleton_on_ground fails.
C7_BasisOrthogonalRightHanded ==
    (Estimated /\ NonDegenerate)
        => LET x == basis.x_hat.dir
               y == basis.y_hat.dir
               z == basis.z_hat.dir
           IN  /\ NoNaN
               /\ Dot(x, y) = 0 /\ Dot(y, z) = 0 /\ Dot(z, x) = 0
               /\ PositiveMultiple(Cross(x, y), z)
               /\ PositiveMultiple(Cross(y, z), x)
               /\ PositiveMultiple(Cross(z, x), y)
               /\ Det(x, y, z) > 0
               /\ gpc # "AssertionError"

\* C7 witness: reference directions that are not orthogonal to begin with
\* have passed every assertion.
C7_Witness ==
    /\ gpc = "validated"
    /\ NonDegenerate
    /\ Dot(Forward, Leftward) # 0

\* C8: for non-degenerate reference points the returned z axis has a positive
\* product with the direction from the center to the head reference point,
\* so the transformed head reference point has a positive z coordinate.
C8_ZAxisPointsToHead ==
    (Estimated /\ NonDegenerate)
        => /\ Dot(basis.z_hat.dir, Upward) > 0
           /\ gpc = "returned"
                 => transformed_trajectories[SKULL_ORIGIN_FORAMEN_MAGNUM][3].num > 0

\* C9: for non-degenerate reference points the returned x axis is a positive
\* multiple of the forward vector.
C9_XAxisIsForward ==
    (Estimated /\ NonDegenerate)
        => /\ ~basis.x_hat.nan
           /\ PositiveMultiple(basis.x_hat.dir, Forward)

\* C9 witness: the leftward reference is not orthogonal to forward, so the
\* y axis has been turned away from it while x was kept.
C9_Witness ==
    /\ gpc = "estimated"
    /\ NonDegenerate
    /\ Dot(Forward, Leftward) # 0
    /\ ~PositiveMultiple(basis.y_hat.dir, Leftward)

\* C10: for degenerate reference points (forward or leftward zero, or the two
\* collinear) the estimation fails with an error: no basis with undefined
\* components is returned and no trajectories are returned.
C10_DegenerateInputFails ==
    (gpc \notin {"idle", "start", "extracted"} /\ ~NonDegenerate)
        => /\ gpc = "estimated" => NoNaN
           /\ gpc \notin {"validated", "returned"}

----------------------------------------------------------------------------
(* Properties of the transform of a recording *)

Returns == gpc = "returned"

InputKeys == DOMAIN heap[Argument].items

InputData(key) == TrajectoryData(heap, Argument, key)

OutputData(key) == TrajectoryData(heap, returned, key)

\* four times the mean of the four foot-contact points at the good frame
FootContactSum ==
    LET at(key) == InputData(key)[good_frame].xyz
    IN  VecAdd(VecAdd(at(RIGHT_HEEL), at(LEFT_HEEL)),
               VecAdd(at(RIGHT_HALLUX_TIP), at(LEFT_HALLUX_TIP)))

\* coordinate i of R * (point - center) for the unit rows R
Rotated(R, center, point, i) ==
    [nan |-> R[i].nan,
     num |-> Dot(R[i].dir, VecSub(point, center)),
     nsq |-> NormSq(R[i].dir)]

\* C11: when put_skeleton_on_ground returns, the output has the key set of
\* the input and as many frames per key, and every tracked point of every key
\* and frame is R * (point - center) for one center, the mean of the four
\* foot-contact points at the good frame, and one R, the rows x_hat, y_hat,
\* z_hat.
C11_UniformRigidTransform ==
    Returns =>
        LET center == reference.center_reference_point
            R == <<basis.x_hat, basis.y_hat, basis.z_hat>>
        IN  /\ DOMAIN heap[returned].items = InputKeys
            /\ 4 * center[1] = FootContactSum[1]
            /\ 4 * center[2] = FootContactSum[2]
            /\ 4 * center[3] = FootContactSum[3]
            /\ \A key \in InputKeys :
                  /\ Len(OutputData(key)) = Len(InputData(key))
                  /\ \A f \in 1..Len(InputData(key)) :
                        IsMissing(InputData(key)[f])
                        \/ \A i \in 1..3 :
                              OutputData(key)[f][i] =
                                  Rotated(R, center, InputData(key)[f].xyz, i)

\* a recording of several frames and poses, with a keypoint besides the
\* references, is returned about a center that is not the origin
C11_Witness ==
    /\ Returns
    /\ NOSE \in InputKeys
    /\ Len(InputData(NOSE)) = MaxFrames
    /\ InputData(NOSE)[1] # InputData(NOSE)[MaxFrames]
    /\ reference.center_reference_point # Zero
    /\ \A f \in 1..MaxFrames : ~IsMissing(InputData(NOSE)[f])

OutputMissing(point) == \E i \in 1..3 : point[i].nan

\* C12: in the returned trajectories a point is missing (NaN) at frame k
\* exactly when the input point of that keypoint is missing at frame k: a
\* missing point makes no other frame and no other keypoint missing.
C12_MissingFramesPreserved ==
    Returns =>
        \A key \in InputKeys :
            \A f \in 1..Len(InputData(key)) :
                OutputMissing(OutputData(key)[f]) <=> IsMissing(InputData(key)[f])

\* a keypoint that is no reference has one coordinate missing at one frame
\* and is tracked at another
C12_Witness ==
    /\ Returns
    /\ \E key \in InputKeys \ GroundReferenceKeys :
          \E f, g \in 1..Len(InputData(key)) :
              /\ InputData(key)[f].nan = <<TRUE, FALSE, FALSE>>
              /\ ~IsMissing(InputData(key)[g])

\* the caller's objects: the mapping, its trajectories and their arrays
InputObjects == {a \in DOMAIN heap : a.gen = "input"}

InputUntouched == \A a \in InputObjects : heap'[a] = heap[a]

ReturnedObjectsAreNew ==
    Returns =>
        /\ returned \notin InputObjects
        /\ \A key \in InputKeys : heap[returned].items[key] \notin InputObjects

\* C13: no step of put_skeleton_on_ground, whether the call returns or fails,
\* changes the caller's mapping, its trajectories or their data, and the
\* returned mapping and its trajectories are objects distinct from the
\* caller's.
C13_InputNotMutated == [][InputUntouched]_vars /\ []ReturnedObjectsAreNew

\* a call has returned a mapping whose data differ from the caller's
C13_Witness ==
    /\ Returns
    /\ returned # Argument
    /\ \E key \in InputKeys :
          heap[heap[returned].items[key]].trajectory_data
              # heap[heap[Argument].items[key]].trajectory_data

----------------------------------------------------------------------------
(* Properties of estimate_orthonormal_basis on orthonormal input *)

UnitLength(v) == NormSq(v) = Scale * Scale

\* forward, left and up are unit vectors, pairwise orthogonal, with
\* forward x left = up
OrthonormalRightHanded ==
    /\ UnitLength(Forward) /\ UnitLength(Leftward) /\ UnitLength(Upward)
    /\ Dot(Forward, Leftward) = 0
    /\ Dot(Leftward, Upward) = 0
    /\ Dot(Upward, Forward) = 0
    /\ Cross(Forward, Leftward) = [i \in 1..3 |-> Scale * Upward[i]]

\* the unit vector h is the vector v of unit length
IsVector(h, v) == ~h.nan /\ [i \in 1..3 |-> Scale * h.dir[i]] = v

\* C17: for reference directions that are orthonormal and right-handed about
\* the center (forward x left = up) estimate_orthonormal_basis returns exactly
\* forward, left and up as x_hat, y_hat and z_hat; the docstring's center
\* [0,0,0], forward [1,0,0], left [0,1,0], up [0,0,1] is one such input.
C17_OrthonormalInputReturned ==
    (Estimated /\ OrthonormalRightHanded)
        => /\ IsVector(basis.x_hat, Forward)
           /\ IsVector(basis.y_hat, Leftward)
           /\ IsVector(basis.z_hat, Upward)

\* an orthonormal right-handed frame that is not the standard one, about a
\* center that is not the origin, has been estimated
C17_Witness ==
    /\ Estimated
    /\ OrthonormalRightHanded
    /\ reference.center_reference_point # Zero
    /\ Forward # Vec(Scale, 0, 0)
    /\ Upward # Vec(0, 0, Scale)

----------------------------------------------------------------------------
(* Properties of the tracked points *)

\* the array is (frame, trajectory, xyz) with a trajectory per name
ShapeMatchesNames(c) ==
    /\ Len(c.trajectory_data.shape) = 3
    /\ c.trajectory_data.shape[3] = 3
    /\ c.trajectory_data.shape[2] = Len(c.trajectory_names)

\* C14: constructing tracked points succeeds exactly when the array has three
\* dimensions, the last of size 3 and the second equal to the number of
\* trajectory names; every other construction raises and returns nothing.
C14_ConstructedIffShapeMatches ==
    Constructed("GenericTrackedPoints")
        => /\ outcome = "ok" <=> ShapeMatchesNames(call)
           /\ outcome = "ok" \/ Rejected

Mapped == keypoints # None

\* C15: map_to_keypoints returns one trajectory per member of the mapping
\* enumeration of (component_type, tracker_source), in the enumeration's
\* order, keyed by the lower-cased member name and named as its key, whatever
\* the order of the trajectory names.
C15_OneTrajectoryPerMember ==
    Mapped
        => LET members == get_mapping(instance.component_type, instance.tracker_source)
           IN  /\ keypoints.raised = "ok"
               /\ Len(keypoints.items) = Len(members)
               /\ \A i \in 1..Len(members) :
                     /\ keypoints.items[i][1] = Lower(members[i].name)
                     /\ keypoints.items[i][2].name = keypoints.items[i][1]

----------------------------------------------------------------------------
(* Properties of the rigid body meshes *)

ConstraintsOfType(mesh, type) ==
    {i \in 1..Len(mesh.constraints) : mesh.constraints[i].type = type}

\* the mesh has the colour and the squish of its side
Dressed(mesh, color, squish) ==
    /\ mesh.joint_color = color
    /\ mesh.cone_color = color
    /\ mesh.squish_scale = squish

\* the single constraint of that type targets the empty of the keypoint
Targets(mesh, type, keypoint) ==
    /\ Cardinality(ConstraintsOfType(mesh, type)) = 1
    /\ \A i \in ConstraintsOfType(mesh, type) :
          mesh.constraints[i].target = ParentedEmpties.empties[blenderize_name(keypoint)]

\* C16: every segment is put on one side by its name: with the right marker
\* in the name the mesh has the right colour and the squish (0.8, 1, 1);
\* otherwise with the left marker the left colour and the same squish;
\* otherwise the axial colour and the squish (1, 1, 1).  Every mesh has one
\* COPY_LOCATION constraint on the object of the segment's parent keypoint and
\* one DAMPED_TRACK constraint on the object of its child keypoint.
C16_SegmentsClassifiedAndConstrained ==
    axial_color # NoColor =>
        \A i \in 1..Len(meshes) :
            LET segment_name == segment_definitions[i][1]
                segment == segment_definitions[i][2]
                mesh == meshes[i]
            IN  /\ Contains(RIGHT, segment_name)
                      => Dressed(mesh, "#BB0033", <<8, 10, 10>>)
                /\ (~Contains(RIGHT, segment_name) /\ Contains(LEFT, segment_name))
                      => Dressed(mesh, "#0033BB", <<8, 10, 10>>)
                /\ (~Contains(RIGHT, segment_name) /\ ~Contains(LEFT, segment_name))
                      => Dressed(mesh, axial_color, <<10, 10, 10>>)
                /\ Len(mesh.constraints) = 2
                /\ Targets(mesh, "COPY_LOCATION", segment.parent)
                /\ Targets(mesh, "DAMPED_TRACK", segment.child)

\* every segment has its mesh, one with both markers in its name and one
\* with neither
C16_Witness ==
    /\ axial_color # NoColor
    /\ Len(meshes) = MaxSegments
    /\ Len(meshes) = Len(segment_definitions)
    /\ \E i, j \in 1..Len(meshes) :
          /\ Contains(RIGHT, segment_definitions[i][1])
          /\ Contains(LEFT, segment_definitions[i][1])
          /\ ~Contains(RIGHT, segment_definitions[j][1])
          /\ ~Contains(LEFT, segment_definitions[j][1])
          /\ segment_definitions[j][1] # <<>>

----------------------------------------------------------------------------
(* Properties of export_3d_model *)

\* the call has returned or raised
ExportOver == epc \in {"finished", "KeyError", "OSError"}

\* C18: once export_3d_model is over, whether it returned or failed part-way
\* (no 'skelly_mesh' object, a failed export), every armature of the scene
\* has the name it had when the function was called, for any number of
\* armatures, any names and any extension.
C18_RigNamesRestored ==
    ExportOver =>
        \A i \in 1..Len(scene) :
            scene[i].type = "ARMATURE" => scene[i].name = scene_at_call[i].name

====
